---- MODULE Spec2Model ----
(***************************************************************************)
(* Model of evm-dex-index: the Balancer parser (src/src/balancer/mod.rs),  *)
(* the V2-only parser (src/src/balancer_v2/mod.rs), the Uniswap            *)
(* classifier/validator (src/src/uniswap/mod.rs) and main with write       *)
(* (src/src/main.rs, src/src/write.rs).                                    *)
(*                                                                         *)
(* Strings whose content the code inspects (deployment signatures, chainId *)
(* strings) are sequences of one-character strings, so that splitting and  *)
(* number parsing are computed, not assumed.  Strings the code only        *)
(* compares or copies (names, addresses) are opaque values.                *)
(***************************************************************************)
EXTENDS Integers, Sequences, FiniteSets, TLC

VARIABLES
    \* ---- process_contracts_with_latest_deployments, called on its own ----
    res_bucket,      \* active_deployments: signature -> Deployment
    res_order,       \* the order in which the HashMap iteration visited the bucket
    res_pc,          \* "call" before the call, "done" after it
    res_result,      \* the Result returned (NoResult before)
    \* ---- balancer::parse ----
    networks,        \* supported_networks.networks: network name -> chain id
    bal_pc,          \* "start", "loop", "body", "done"
    pending,         \* networks the for loop has not visited yet
    v2_chains,       \* chain id -> ChainContracts
    v3_chains,       \* chain id -> ChainContracts
    bal_result,      \* the Result returned (NoResult while running)
    last,            \* the loop iteration under way: its network, what it read and computed
    \* ---- uniswap::parse ----
    configs,         \* PROTOCOL_CONFIGS
    dir,             \* the deployments directory: files in read_dir order
    uni_pc,          \* "validate", "read", "loop", "check", "build", "done"
    dir_read,        \* TRUE once read_deployments has been called
    uni_deployments, \* the Vec still to be iterated by the for loop
    protocol_chains, \* protocol name -> (chain id -> ChainContracts)
    classified,      \* what the latest loop iteration read and classified
    uni_result,      \* the Result returned (NoResult while running)
    \* ---- parse_data_from_signature, called on its own ----
    date_signature,  \* the signature passed in
    date_chain_id,   \* the chain id passed in
    date_pc,         \* "call" before the call, "done" after it
    date_result,     \* the Result returned (NoResult before)
    \* ---- main ----
    main_pc,         \* the statement of main that runs next ("exit", "panic" at the end)
    uniswap_deployments, \* what the for loop of main has still to write
    written,         \* the files under TARGET_FOLDER created by this run
    \* ---- <ParseError as Display>::fmt, called on an error of its own ----
    fmt_self,        \* the ParseError being formatted
    fmt_pc,          \* "running" while the call is under way, "overflow" once the stack is used up
    fmt_frames,      \* the frames of fmt on the stack
    \* ---- balancer_v2::parse, called on the checkout balancer::parse has parsed ----
    repo,            \* the <network>.json files of the checkout both parsers read
    b2_pc,           \* "wait", "start", "loop", "body", "done"
    b2_pending,      \* networks the for loop has not visited yet
    b2_network,      \* the network of the loop iteration under way
    b2_chains,       \* chain id -> ChainContracts
    b2_result        \* the Result returned (NoResult while running)

resVars == <<res_bucket, res_order, res_pc, res_result>>
balVars == <<networks, bal_pc, pending, v2_chains, v3_chains, bal_result, last>>
uniVars == <<configs, dir, uni_pc, dir_read, uni_deployments, protocol_chains,
             classified, uni_result>>
dateVars == <<date_signature, date_chain_id, date_pc, date_result>>
mainVars == <<main_pc, uniswap_deployments, written>>
fmtVars == <<fmt_self, fmt_pc, fmt_frames>>
v2Vars == <<repo, b2_pc, b2_pending, b2_network, b2_chains, b2_result>>
vars == <<resVars, balVars, uniVars, dateVars, mainVars, fmtVars, v2Vars>>

----------------------------------------------------------------------------
(* Bounds of the model *)

\* deployments in one bucket handed to the resolver on its own
MaxBucket == 2
\* contracts listed by one deployment of such a bucket
MaxContracts == 2
\* deployment records in one network file
MaxDeployments == 2
\* files in the Uniswap deployments directory
MaxFiles == 2
\* entries of a protocol-config table, and contract names one entry lists
MaxProtocols == 2
MaxConfigContracts == 2

----------------------------------------------------------------------------
(* Generic helpers *)

EmptyMap == [x \in {} |-> x]

\* HashMap::insert: the value under key k is replaced or added
MapInsert(m, k, v) == [x \in DOMAIN m \cup {k} |-> IF x = k THEN v ELSE m[x]]

\* all sequences over S of length at most n
SeqsUpTo(S, n) == UNION {[1..k -> S] : k \in 0..n}

\* the orders in which an iteration can visit the set S
Orders(S) == {o \in [1..Cardinality(S) -> S] : \A i, j \in DOMAIN o : i # j => o[i] # o[j]}

Range(s) == {s[i] : i \in DOMAIN s}

Digits == {"0", "1", "2", "3", "4", "5", "6", "7", "8", "9"}

DigitVal(c) ==
    CASE c = "0" -> 0 [] c = "1" -> 1 [] c = "2" -> 2 [] c = "3" -> 3 [] c = "4" -> 4
      [] c = "5" -> 5 [] c = "6" -> 6 [] c = "7" -> 7 [] c = "8" -> 8 [] c = "9" -> 9

\* the rest of s from position i on
From(s, i) == SubSeq(s, i, Len(s))

\* number of leading characters of s that are in set C, at most max
RECURSIVE LeadingIn(_, _, _)
LeadingIn(s, C, max) ==
    IF max = 0 \/ s = <<>> \/ Head(s) \notin C THEN 0
    ELSE 1 + LeadingIn(Tail(s), C, max - 1)

\* decimal value of a sequence of digits
RECURSIVE DecimalValue(_)
DecimalValue(s) ==
    IF s = <<>> THEN 0 ELSE 10 * DecimalValue(SubSeq(s, 1, Len(s) - 1)) + DigitVal(s[Len(s)])

----------------------------------------------------------------------------
(* Signature date parser *)

\* str::split('-').nth(0): the text before the first '-', the whole string
\* when there is none.  split always yields a first item, so nth(0) is
\* never None.
FirstSegment(signature) ==
    SubSeq(signature, 1, LeadingIn(signature, {c \in Range(signature) : c # "-"}, Len(signature)))

\* chrono scan::number(s, min, max): between min and max leading ASCII
\* digits; n is the number of leading digits found
ScanTaken(s, min, n) ==
    IF n < min THEN [ok |-> FALSE, cause |-> "Invalid"]
    ELSE [ok |-> TRUE, value |-> DecimalValue(SubSeq(s, 1, n)), rest |-> From(s, n + 1)]

ScanNumber(s, min, max) ==
    IF Len(s) < min THEN [ok |-> FALSE, cause |-> "TooShort"]
    ELSE ScanTaken(s, min, LeadingIn(s, Digits, max))

\* str::trim_start, applied by chrono before every numeric item
RECURSIVE TrimStart(_)
TrimStart(s) == IF s # <<>> /\ Head(s) = " " THEN TrimStart(Tail(s)) ELSE s

IsLeapYear(y) == (y % 4 = 0 /\ y % 100 # 0) \/ y % 400 = 0

DaysInMonth(y, m) ==
    IF m = 2 THEN (IF IsLeapYear(y) THEN 29 ELSE 28)
    ELSE IF m \in {4, 6, 9, 11} THEN 30 ELSE 31

\* NaiveDate::from_ymd_opt
IsValidDate(y, m, d) == m \in 1..12 /\ d >= 1 /\ d <= DaysInMonth(y, m)

\* NaiveDate::parse_from_str(date_str, "%Y%m%d"):
\*   %Y  an optional sign and then any number of digits, or 1 to 4 digits;
\*   %m  1 to 2 digits;  %d  1 to 2 digits;  nothing may follow;
\*   the three numbers must form a calendar date.
\* Each item is an operator that is handed the outcome of the item before.
AfterDay(y, m, dy) ==
    IF ~dy.ok THEN dy
    ELSE IF dy.rest # <<>> THEN [ok |-> FALSE, cause |-> "TooLong"]
    ELSE IF ~IsValidDate(y, m, dy.value) THEN [ok |-> FALSE, cause |-> "OutOfRange"]
    ELSE [ok |-> TRUE, date |-> [year |-> y, month |-> m, day |-> dy.value]]

AfterMonth(y, mo) ==
    IF ~mo.ok THEN mo ELSE AfterDay(y, mo.value, ScanNumber(TrimStart(mo.rest), 1, 2))

AfterYear(negative, yr) ==
    IF ~yr.ok THEN yr
    ELSE AfterMonth(IF negative THEN 0 - yr.value ELSE yr.value,
                    ScanNumber(TrimStart(yr.rest), 1, 2))

ParseYear(s) ==
    IF s # <<>> /\ Head(s) \in {"+", "-"}
    THEN AfterYear(Head(s) = "-", ScanNumber(Tail(s), 1, Len(s)))
    ELSE AfterYear(FALSE, ScanNumber(s, 1, 4))

ParseFromStr(date_str) == ParseYear(TrimStart(date_str))

\* `?` on the chrono result: Ok(date), or the chrono error converted into
\* ParseError::DateParseError
DateResult(r) ==
    IF r.ok THEN [ok |-> TRUE, date |-> r.date]
    ELSE [ok |-> FALSE, err |-> [kind |-> "DateParseError", cause |-> r.cause]]

\* signature.split('-').nth(0) as the Option it is: split yields its first
\* item for every string, so the Option is always Some
split_nth_0(signature) == [some |-> TRUE, value |-> FirstSegment(signature)]

\* `.ok_or(NoDateInSignature { chain_id, signature })?` and then the parse
\* of the segment
DateFromSegment(date_str, signature, chain_id) ==
    IF ~date_str.some
    THEN [ok |-> FALSE,
          err |-> [kind |-> "NoDateInSignature", chain_id |-> chain_id,
                   signature |-> signature]]
    ELSE DateResult(ParseFromStr(date_str.value))

parse_data_from_signature(signature, chain_id) ==
    DateFromSegment(split_nth_0(signature), signature, chain_id)

\* NaiveDate's ordering: date >= existing_date
DateGE(a, b) ==
    \/ a.year > b.year
    \/ a.year = b.year /\ a.month > b.month
    \/ a.year = b.year /\ a.month = b.month /\ a.day >= b.day

----------------------------------------------------------------------------
(* Latest-wins resolver *)

\* the comparison turned round: an older deployment replaces a newer one
should_update_older_wins(deployment_dates, name, date) ==
    IF name \in DOMAIN deployment_dates THEN DateGE(deployment_dates[name], date) ELSE TRUE

\* `>` for `>=`: of deployments with the same date the first visited stays
should_update_strictly_newer(deployment_dates, name, date) ==
    IF name \in DOMAIN deployment_dates THEN ~DateGE(deployment_dates[name], date) ELSE TRUE

\* should_update: no date recorded yet for the name, or date >= the recorded one
should_update(deployment_dates, name, date) ==
    IF name \in DOMAIN deployment_dates THEN DateGE(date, deployment_dates[name]) ELSE TRUE

\* map_or(false, ..) for map_or(true, ..): a name without a recorded date is
\* never taken
UpdateContract_known_only(acc, contract, date) ==
    IF contract.name \in DOMAIN acc.deployment_dates
       /\ should_update(acc.deployment_dates, contract.name, date)
    THEN [contracts |-> MapInsert(acc.contracts, contract.name, contract.address),
          deployment_dates |-> MapInsert(acc.deployment_dates, contract.name, date)]
    ELSE acc

\* `if should_update { contracts.insert(..); deployment_dates.insert(..) }`;
\* acc = [contracts, deployment_dates]
UpdateContract(acc, contract, date) ==
    IF should_update(acc.deployment_dates, contract.name, date)
    THEN [contracts |-> MapInsert(acc.contracts, contract.name, contract.address),
          deployment_dates |-> MapInsert(acc.deployment_dates, contract.name, date)]
    ELSE acc

\* `for contract in deployment.contracts`, from entry i on
RECURSIVE MergeContracts(_, _, _, _)
MergeContracts(acc, contract_list, date, i) ==
    IF i > Len(contract_list) THEN acc
    ELSE MergeContracts(UpdateContract(acc, contract_list[i], date), contract_list, date, i + 1)

\* `for (signature, deployment) in active_deployments`, visiting the map in
\* the given order from position i on; d is the outcome of
\* parse_data_from_signature for the entry at position i
RECURSIVE ResolveFrom(_, _, _, _, _)

\* a deployment whose date cannot be parsed is skipped instead of failing
VisitDeployment_skipping(acc, active_deployments, order, chain_id, i, d) ==
    ResolveFrom(IF d.ok
                THEN MergeContracts(acc, active_deployments[order[i]].contracts, d.date, 1)
                ELSE acc,
                active_deployments, order, chain_id, i + 1)

VisitDeployment(acc, active_deployments, order, chain_id, i, d) ==
    IF ~d.ok THEN [ok |-> FALSE, err |-> d.err]
    ELSE ResolveFrom(MergeContracts(acc, active_deployments[order[i]].contracts, d.date, 1),
                     active_deployments, order, chain_id, i + 1)

ResolveFrom(acc, active_deployments, order, chain_id, i) ==
    IF i > Len(order) THEN [ok |-> TRUE, contracts |-> acc.contracts]
    ELSE VisitDeployment(acc, active_deployments, order, chain_id, i,
                         parse_data_from_signature(order[i], chain_id))

process_contracts_with_latest_deployments(active_deployments, order, chain_id) ==
    ResolveFrom([contracts |-> EmptyMap, deployment_dates |-> EmptyMap],
                active_deployments, order, chain_id, 1)

----------------------------------------------------------------------------
(* Inputs *)

ContractNames == {"Vault", "Router"}

\* "20240101-a", "20250101-b", "20250101-c" (same date as -b), "bad-x"
SigOld == <<"2", "0", "2", "4", "0", "1", "0", "1", "-", "a">>
SigNew == <<"2", "0", "2", "5", "0", "1", "0", "1", "-", "b">>
SigTie == <<"2", "0", "2", "5", "0", "1", "0", "1", "-", "c">>
SigBad == <<"b", "a", "d", "-", "x">>
Signatures == {SigOld, SigNew, SigTie, SigBad}

ChainIds == {1, 42161}

Versions == {"V2", "V3"}
Statuses == {"Active", "Deprecated", "Script"}

\* The contracts of the deployment `signature` of `origin` listing the given
\* names: every entry gets an address of its own (origin, last character of
\* the signature, position), so that the origin of a resolved address can
\* be told.
ContractsOf(names, origin, signature) ==
    [i \in 1..Len(names) |->
        [name |-> names[i], address |-> <<origin, signature[Len(signature)], i>>]]

\* the maps signature -> Deployment with at most n records, whose records
\* take version, status and list of contract names from the given sets
DeploymentMaps(origin, n, versions, statuses, nameLists) ==
    UNION {
        UNION {
            {[s \in S |-> [version |-> vs[s][1], status |-> vs[s][2],
                           contracts |-> ContractsOf(nl[s], origin, s)]] :
                 vs \in [S -> versions \X statuses]}
            : nl \in [S -> nameLists]}
        : S \in {T \in SUBSET Signatures : Cardinality(T) <= n}}

NoResult == [ok |-> FALSE, err |-> [kind |-> "NotReturned"]]
NoCall == [called |-> FALSE]
\* `fed` is the record the loop leaves behind: for every network and version
\* whose bucket was resolved, the map the resolver returned
NoLast == [network |-> "", chain_id |-> 0, read |-> NoResult, v2 |-> NoCall, v3 |-> NoCall,
           fed |-> {}]

NoClassified == [ran |-> FALSE]

ResIdle ==
    /\ res_bucket = EmptyMap /\ res_order = <<>> /\ res_pc = "idle" /\ res_result = NoResult
BalIdle ==
    /\ networks = EmptyMap /\ bal_pc = "idle" /\ pending = {}
    /\ v2_chains = EmptyMap /\ v3_chains = EmptyMap /\ bal_result = NoResult /\ last = NoLast
UniIdle ==
    /\ configs = <<>> /\ dir = <<>> /\ uni_pc = "idle" /\ dir_read = FALSE
    /\ uni_deployments = <<>> /\ protocol_chains = EmptyMap
    /\ classified = NoClassified /\ uni_result = NoResult

DateIdle ==
    /\ date_signature = <<>> /\ date_chain_id = 0 /\ date_pc = "idle" /\ date_result = NoResult
MainIdle ==
    /\ main_pc = "idle" /\ uniswap_deployments = <<>> /\ written = {}
FmtIdle ==
    /\ fmt_self = NoResult.err /\ fmt_pc = "idle" /\ fmt_frames = 0
V2Idle ==
    /\ repo = EmptyMap /\ b2_pc = "idle" /\ b2_pending = {} /\ b2_network = ""
    /\ b2_chains = EmptyMap /\ b2_result = NoResult

----------------------------------------------------------------------------
(* The resolver called on a bucket of its own *)

ResolverBuckets ==
    DeploymentMaps("bucket", MaxBucket, {"V2"}, {"Active"}, SeqsUpTo(ContractNames, MaxContracts))

ResInit ==
    /\ res_bucket \in ResolverBuckets
    /\ res_order = <<>> /\ res_pc = "call" /\ res_result = NoResult
    /\ BalIdle /\ UniIdle /\ DateIdle /\ FmtIdle /\ V2Idle /\ MainIdle

\* one call of process_contracts_with_latest_deployments(res_bucket, 1); the
\* HashMap hands out its entries in some order
ResolveCall ==
    /\ res_pc = "call"
    /\ \E order \in Orders(DOMAIN res_bucket) :
          /\ res_order' = order
          /\ res_result' = process_contracts_with_latest_deployments(res_bucket, order, 1)
    /\ res_pc' = "done"
    /\ UNCHANGED <<res_bucket, balVars, uniVars, dateVars, fmtVars, v2Vars, mainVars>>

ResNext == ResolveCall

SpecResolve == ResInit /\ [][ResNext]_vars

\* buckets of any number of the signatures, two of which have the same date
\* and one an older date; a deployment lists "Vault" or nothing
TieBuckets ==
    DeploymentMaps("bucket", Cardinality(Signatures), {"V2"}, {"Active"},
                   SeqsUpTo({"Vault"}, 1))

TieInit ==
    /\ res_bucket \in TieBuckets
    /\ res_order = <<>> /\ res_pc = "call" /\ res_result = NoResult
    /\ BalIdle /\ UniIdle /\ DateIdle /\ FmtIdle /\ V2Idle /\ MainIdle

SpecResolveTies == TieInit /\ [][ResNext]_vars

----------------------------------------------------------------------------
(* parse_data_from_signature called on a signature of its own *)

\* the characters of a leading segment, and how long it can be
SegmentChars == {"0", "1", "2", "x"}
MaxSegment == 8

\* a leading segment alone, or followed by "-a"
DateSignatures ==
    {seg \o rest : seg \in SeqsUpTo(SegmentChars, MaxSegment), rest \in {<<>>, <<"-", "a">>}}

DateInit ==
    /\ date_signature \in DateSignatures
    /\ date_chain_id \in ChainIds
    /\ date_pc = "call" /\ date_result = NoResult
    /\ ResIdle /\ BalIdle /\ UniIdle /\ MainIdle /\ FmtIdle /\ V2Idle

DateCall ==
    /\ date_pc = "call"
    /\ date_result' = parse_data_from_signature(date_signature, date_chain_id)
    /\ date_pc' = "done"
    /\ UNCHANGED <<date_signature, date_chain_id, resVars, balVars, uniVars, mainVars, fmtVars, v2Vars>>

DateNext == DateCall

SpecDate == DateInit /\ [][DateNext]_vars

----------------------------------------------------------------------------
(* <ParseError as Display>::fmt called on an error of its own *)

\* the nested calls of fmt the stack has room for
MaxFrames == 6

\* the values of the enum ParseError
ParseErrors ==
    {[kind |-> "ChainIdAlreadyExists", chain_id |-> c] : c \in ChainIds}
    \cup {[kind |-> "NoDateInSignature", chain_id |-> c, signature |-> s] :
             c \in ChainIds, s \in Signatures}
    \cup {[kind |-> "IoError"], [kind |-> "SerdeError"]}
    \cup {[kind |-> "DateParseError", cause |-> c] :
             c \in {"TooShort", "Invalid", "TooLong", "OutOfRange"}}

\* the caller has entered fmt(&self, f)
FmtInit ==
    /\ fmt_self \in ParseErrors
    /\ fmt_pc = "running" /\ fmt_frames = 1
    /\ ResIdle /\ BalIdle /\ UniIdle /\ DateIdle /\ MainIdle /\ V2Idle

\* The body of fmt, run by the innermost frame: `write!(f, "{}", self)`
\* formats self with Display, which is a call of this same fmt on the same
\* value, made before anything is written to f and whatever the variant is.
\* The frame would return what the nested call returns, so it stays on the
\* stack until then; when the stack has no room for the nested frame the
\* process is ended.
DisplayFmt ==
    /\ fmt_pc = "running"
    /\ IF fmt_frames < MaxFrames
       THEN fmt_frames' = fmt_frames + 1 /\ UNCHANGED fmt_pc
       ELSE fmt_pc' = "overflow" /\ UNCHANGED fmt_frames
    /\ UNCHANGED <<fmt_self, resVars, balVars, uniVars, dateVars, mainVars, v2Vars>>

FmtNext == DisplayFmt

\* the thread that called fmt keeps running while it can
SpecDisplay == FmtInit /\ [][FmtNext]_vars /\ WF_vars(FmtNext)

----------------------------------------------------------------------------
(* balancer::parse *)

\* the catalog lists the first k of these names
NetworkNames == <<"mainnet", "arbitrum">>

\* contents of .supported-networks.json: network name -> chainId
Catalogs ==
    UNION {[{NetworkNames[i] : i \in 1..k} -> ChainIds] : k \in 0..Len(NetworkNames)}

\* contents of one <network>.json: records of any version and status; an
\* Active record lists no contract or "Vault", a record that is not Active
\* lists "Vault" (what it lists is never looked at)
NetworkFiles ==
    [network \in Range(NetworkNames) |->
        {f \in DeploymentMaps(network, MaxDeployments, Versions, Statuses,
                              SeqsUpTo({"Vault"}, 1)) :
            \A s \in DOMAIN f : f[s].status # "Active" => f[s].contracts # <<>>}]

\* what <network>.json can hold when it is read: the file of the checkout
\* when the run has one fixed in repo, any content otherwise
FilesAt(network) ==
    IF network \in DOMAIN repo THEN {repo[network]} ELSE NetworkFiles[network]

\* File::open or serde_json::from_reader failing on a file
ReadFailures == {[ok |-> FALSE, err |-> [kind |-> "IoError"]],
                 [ok |-> FALSE, err |-> [kind |-> "SerdeError"]]}

\* the status test left out: every record of the version is taken
filter_by_version_only(deployments, version) ==
    LET S == {s \in DOMAIN deployments : deployments[s].version = version}
    IN  [s \in S |-> deployments[s]]

filter_active_deployments_by_version(deployments, version) ==
    LET S == {s \in DOMAIN deployments :
                 deployments[s].version = version /\ deployments[s].status = "Active"}
    IN  [s \in S |-> deployments[s]]

\* the resolved map is stored before the entry is looked at, so an occupied
\* entry is replaced and then reported
InsertResolved_overwriting(chains, order, chain_id, r) ==
    IF ~r.ok
    THEN [ok |-> FALSE, err |-> r.err, chains |-> chains,
          call |-> [called |-> TRUE, order |-> order, result |-> r]]
    ELSE [ok |-> chain_id \notin DOMAIN chains,
          err |-> [kind |-> "ChainIdAlreadyExists", chain_id |-> chain_id],
          chains |-> MapInsert(chains, chain_id, r.contracts),
          call |-> [called |-> TRUE, order |-> order, result |-> r]]

\* the aggregate is started afresh for every network
InsertResolved_alone(chains, order, chain_id, r) ==
    IF ~r.ok
    THEN [ok |-> FALSE, err |-> r.err, chains |-> chains,
          call |-> [called |-> TRUE, order |-> order, result |-> r]]
    ELSE [ok |-> TRUE, chains |-> MapInsert(EmptyMap, chain_id, r.contracts),
          call |-> [called |-> TRUE, order |-> order, result |-> r]]

\* `match chains.entry(chain_id) { Occupied => return Err, Vacant => insert }`
\* after `process_contracts...(active, chain_id)?` returned r, having
\* visited the bucket in the given order: the chains afterwards, the error
\* returned if any, and the call of the resolver that was made
InsertResolved(chains, order, chain_id, r) ==
    IF ~r.ok
    THEN [ok |-> FALSE, err |-> r.err, chains |-> chains,
          call |-> [called |-> TRUE, order |-> order, result |-> r]]
    ELSE IF chain_id \in DOMAIN chains
    THEN [ok |-> FALSE, err |-> [kind |-> "ChainIdAlreadyExists", chain_id |-> chain_id],
          chains |-> chains, call |-> [called |-> TRUE, order |-> order, result |-> r]]
    ELSE [ok |-> TRUE, chains |-> MapInsert(chains, chain_id, r.contracts),
          call |-> [called |-> TRUE, order |-> order, result |-> r]]

\* `if !active.is_empty() { ... }` for one version
ResolveAndInsert(chains, active_deployments, order, chain_id) ==
    IF DOMAIN active_deployments = {}
    THEN [ok |-> TRUE, chains |-> chains, call |-> NoCall]
    ELSE InsertResolved(chains, order, chain_id,
             process_contracts_with_latest_deployments(active_deployments, order, chain_id))

\* the loop body after the file was read: the two aggregates, the
\* iteration's locals, and the error returned if any (s2 is the outcome for
\* V2; V3 is only looked at when V2 did not return an error)
AfterV3(file, s2, s3) ==
    [v2_chains |-> s2.chains, v3_chains |-> s3.chains,
     read |-> [ok |-> TRUE, deployments |-> file], v2 |-> s2.call, v3 |-> s3.call,
     ok |-> s3.ok, err |-> IF s3.ok THEN NoResult.err ELSE s3.err]

AfterV2(file, chains3, active_v3_deployments, o3, chain_id, s2) ==
    IF s2.ok
    THEN AfterV3(file, s2, ResolveAndInsert(chains3, active_v3_deployments, o3, chain_id))
    ELSE AfterV3(file, s2, [ok |-> FALSE, err |-> s2.err, chains |-> chains3, call |-> NoCall])

LoopBody(file, chains2, chains3, o2, o3, chain_id) ==
    AfterV2(file, chains3, filter_active_deployments_by_version(file, "V3"), o3, chain_id,
            ResolveAndInsert(chains2, filter_active_deployments_by_version(file, "V2"),
                             o2, chain_id))

\* what a call of the resolver adds to the record of the loop
Fed(network, version, call) ==
    IF call.called /\ call.result.ok
    THEN {[network |-> network, version |-> version, contracts |-> call.result.contracts]}
    ELSE {}

\* the loop body's outcome b put into the state
BalStore(b) ==
    /\ v2_chains' = b.v2_chains
    /\ v3_chains' = b.v3_chains
    /\ last' = [last EXCEPT !.read = b.read, !.v2 = b.v2, !.v3 = b.v3,
                            !.fed = last.fed \cup Fed(last.network, "V2", b.v2)
                                             \cup Fed(last.network, "V3", b.v3)]
    /\ IF b.ok
       THEN bal_pc' = "loop" /\ UNCHANGED bal_result
       ELSE bal_pc' = "done" /\ bal_result' = [ok |-> FALSE, err |-> b.err]

BalInit ==
    /\ networks \in Catalogs
    /\ bal_pc = "start" /\ pending = {}
    /\ v2_chains = EmptyMap /\ v3_chains = EmptyMap
    /\ bal_result = NoResult /\ last = NoLast
    /\ ResIdle /\ UniIdle /\ DateIdle /\ FmtIdle /\ V2Idle /\ MainIdle

\* read_supported_networks(..)?, then the two empty aggregates
BalReadSupportedNetworks ==
    /\ bal_pc = "start"
    /\ \/ /\ bal_pc' = "loop" /\ pending' = DOMAIN networks
          /\ UNCHANGED bal_result
       \/ /\ \E f \in ReadFailures : bal_result' = f
          /\ bal_pc' = "done"
          /\ UNCHANGED pending
    /\ UNCHANGED <<networks, v2_chains, v3_chains, last, resVars, uniVars, dateVars, fmtVars, v2Vars, mainVars>>

\* `for (network, info) in supported_networks.networks`: the iterator hands
\* out the next entry; the locals of the previous iteration are gone
BalNextNetwork ==
    /\ bal_pc = "loop"
    /\ \E network \in pending :
          /\ pending' = pending \ {network}
          /\ last' = [network |-> network, chain_id |-> networks[network], read |-> NoResult,
                      v2 |-> NoCall, v3 |-> NoCall, fed |-> last.fed]
    /\ bal_pc' = "body"
    /\ UNCHANGED <<networks, v2_chains, v3_chains, bal_result, resVars, uniVars, dateVars, fmtVars, v2Vars, mainVars>>

\* the body of the loop for the entry handed out: read the network's
\* file, filter it twice, and resolve and insert each non-empty bucket
BalProcessNetwork ==
    /\ bal_pc = "body"
    /\ \/ \E f \in ReadFailures :
            /\ bal_result' = f /\ bal_pc' = "done"
            /\ last' = [last EXCEPT !.read = f]
            /\ UNCHANGED <<v2_chains, v3_chains>>
       \/ \E file \in FilesAt(last.network) :
            \E o2 \in Orders(DOMAIN filter_active_deployments_by_version(file, "V2")),
               o3 \in Orders(DOMAIN filter_active_deployments_by_version(file, "V3")) :
                BalStore(LoopBody(file, v2_chains, v3_chains, o2, o3, last.chain_id))
    /\ UNCHANGED <<networks, pending, resVars, uniVars, dateVars, fmtVars, v2Vars, mainVars>>

\* Ok((ProtocolDeployments balancer-v2, ProtocolDeployments balancer-v3))
BalReturn ==
    /\ bal_pc = "loop" /\ pending = {}
    /\ bal_pc' = "done"
    /\ bal_result' = [ok |-> TRUE,
                      v2 |-> [protocol_name |-> "balancer-v2", chains |-> v2_chains],
                      v3 |-> [protocol_name |-> "balancer-v3", chains |-> v3_chains]]
    /\ UNCHANGED <<networks, pending, v2_chains, v3_chains, last, resVars, uniVars, dateVars, fmtVars, v2Vars, mainVars>>

BalNext == BalReadSupportedNetworks \/ BalNextNetwork \/ BalProcessNetwork \/ BalReturn

SpecBalancer == BalInit /\ [][BalNext]_vars

----------------------------------------------------------------------------
(* balancer_v2::parse, called on the checkout balancer::parse has parsed *)

\* the status test left out: every V2 record is taken
filter_v2_deployments_any_status(deployments) ==
    LET S == {s \in DOMAIN deployments : deployments[s].version = "V2"}
    IN  [s \in S |-> deployments[s]]

filter_active_v2_deployments(deployments) ==
    LET S == {s \in DOMAIN deployments :
                 deployments[s].version = "V2" /\ deployments[s].status = "Active"}
    IN  [s \in S |-> deployments[s]]

\* balancer_v2's own process_contracts_with_latest_deployments and
\* parse_data_from_signature: statement for statement those of balancer
v2_process_contracts_with_latest_deployments(active_v2_deployments, order, chain_id) ==
    process_contracts_with_latest_deployments(active_v2_deployments, order, chain_id)

\* `process_contracts...(active_v2_deployments, chain_id)?` returned r; then
\* `match chains.entry(chain_id) { Occupied => return Err, Vacant => insert }`
V2InsertResolved(chains, chain_id, r) ==
    IF ~r.ok THEN [ok |-> FALSE, err |-> r.err, chains |-> chains]
    ELSE IF chain_id \in DOMAIN chains
    THEN [ok |-> FALSE, err |-> [kind |-> "ChainIdAlreadyExists", chain_id |-> chain_id],
          chains |-> chains]
    ELSE [ok |-> TRUE, chains |-> MapInsert(chains, chain_id, r.contracts)]

\* the loop body after the file was read, the bucket visited in the given order
V2LoopBody(file, chains, order, chain_id) ==
    V2InsertResolved(chains, chain_id,
        v2_process_contracts_with_latest_deployments(filter_active_v2_deployments(file),
                                                     order, chain_id))

\* the loop body's outcome b put into the state
V2Store(b) ==
    /\ b2_chains' = b.chains
    /\ IF b.ok
       THEN b2_pc' = "loop" /\ UNCHANGED b2_result
       ELSE b2_pc' = "done" /\ b2_result' = [ok |-> FALSE, err |-> b.err]

\* The files of a checkout.  In the file of the first network, which has up
\* to MaxDeployments records, a V2 record is Active and lists nothing,
\* "Vault" or "Router", or it is Deprecated; a V3 record is Active.  The file
\* of any other network has at most one record, Active and listing "Vault".
RepoRecords(network) ==
    IF network = NetworkNames[1]
    THEN DeploymentMaps(network, MaxDeployments, Versions, {"Active", "Deprecated"},
                        {<<>>, <<"Vault">>, <<"Router">>})
    ELSE DeploymentMaps(network, 1, Versions, {"Active"}, {<<"Vault">>})

NamesListed(deployment) ==
    [i \in DOMAIN deployment.contracts |-> deployment.contracts[i].name]

RepoFiles ==
    [network \in Range(NetworkNames) |->
        {f \in RepoRecords(network) :
            \A s \in DOMAIN f :
                /\ f[s].status # "Active" =>
                      f[s].version = "V2" /\ NamesListed(f[s]) = <<"Vault">>
                /\ f[s].version = "V3" => NamesListed(f[s]) = <<"Vault">>}]

\* a file for every network of the catalog
Checkouts(catalog) ==
    {[n \in DOMAIN catalog |-> IF n = NetworkNames[1] THEN first ELSE other] :
        first \in RepoFiles[NetworkNames[1]], other \in RepoFiles[NetworkNames[2]]}

AgreeInit ==
    /\ networks \in Catalogs
    /\ repo \in Checkouts(networks)
    /\ bal_pc = "start" /\ pending = {}
    /\ v2_chains = EmptyMap /\ v3_chains = EmptyMap
    /\ bal_result = NoResult /\ last = NoLast
    /\ b2_pc = "wait" /\ b2_pending = {} /\ b2_network = ""
    /\ b2_chains = EmptyMap /\ b2_result = NoResult
    /\ ResIdle /\ UniIdle /\ DateIdle /\ MainIdle /\ FmtIdle

\* balancer::parse has returned Ok; balancer_v2::parse(path_to_repo) is called
V2Call ==
    /\ b2_pc = "wait" /\ bal_pc = "done" /\ bal_result.ok
    /\ b2_pc' = "start"
    /\ UNCHANGED <<repo, b2_pending, b2_network, b2_chains, b2_result,
                   resVars, balVars, uniVars, dateVars, mainVars, fmtVars>>

\* read_supported_networks(..)?, then the empty aggregate
V2ReadSupportedNetworks ==
    /\ b2_pc = "start"
    /\ \/ /\ b2_pc' = "loop" /\ b2_pending' = DOMAIN networks
          /\ UNCHANGED b2_result
       \/ /\ \E f \in ReadFailures : b2_result' = f
          /\ b2_pc' = "done"
          /\ UNCHANGED b2_pending
    /\ UNCHANGED <<repo, b2_network, b2_chains,
                   resVars, balVars, uniVars, dateVars, mainVars, fmtVars>>

\* `for (network, info) in supported_networks.networks`
V2NextNetwork ==
    /\ b2_pc = "loop"
    /\ \E network \in b2_pending :
          /\ b2_pending' = b2_pending \ {network}
          /\ b2_network' = network
    /\ b2_pc' = "body"
    /\ UNCHANGED <<repo, b2_chains, b2_result,
                   resVars, balVars, uniVars, dateVars, mainVars, fmtVars>>

\* the body of the loop: read the network's file, filter it, resolve the
\* bucket whether it is empty or not, and insert under the chain id
V2ProcessNetwork ==
    /\ b2_pc = "body"
    /\ \/ \E f \in ReadFailures :
            /\ b2_result' = f /\ b2_pc' = "done"
            /\ UNCHANGED b2_chains
       \/ \E order \in Orders(DOMAIN filter_active_v2_deployments(repo[b2_network])) :
            V2Store(V2LoopBody(repo[b2_network], b2_chains, order, networks[b2_network]))
    /\ UNCHANGED <<repo, b2_pending, b2_network,
                   resVars, balVars, uniVars, dateVars, mainVars, fmtVars>>

\* Ok(ProtocolDeployments balancer-v2)
V2Return ==
    /\ b2_pc = "loop" /\ b2_pending = {}
    /\ b2_pc' = "done"
    /\ b2_result' = [ok |-> TRUE,
                     deployments |-> [protocol_name |-> "balancer-v2", chains |-> b2_chains]]
    /\ UNCHANGED <<repo, b2_pending, b2_network, b2_chains,
                   resVars, balVars, uniVars, dateVars, mainVars, fmtVars>>

V2Next == V2Call \/ V2ReadSupportedNetworks \/ V2NextNetwork \/ V2ProcessNetwork \/ V2Return

AgreeNext == BalNext \/ V2Next

SpecAgree == AgreeInit /\ [][AgreeNext]_vars

----------------------------------------------------------------------------
(* uniswap::parse *)

\* str::parse::<u64>: an optional '+', then one or more digits and nothing
\* else (the strings of the model are too short to overflow a u64)
ScanU64(s) ==
    IF s = <<>> \/ LeadingIn(s, Digits, Len(s)) # Len(s)
    THEN [ok |-> FALSE, err |-> [kind |-> "IoError", cause |-> "InvalidData"]]
    ELSE [ok |-> TRUE, chain_id |-> DecimalValue(s)]

parse_chain_id(chain_id_str) ==
    IF chain_id_str # <<>> /\ Head(chain_id_str) = "+"
    THEN ScanU64(Tail(chain_id_str))
    ELSE ScanU64(chain_id_str)

\* how many times a config lists one contract name
Occurrences(contract_list, contract) ==
    Cardinality({j \in DOMAIN contract_list : contract_list[j] = contract})

\* the Vec contract_to_protocols holds for one contract name: the name of each
\* config that lists it, pushed in table order, once per listing
RECURSIVE ProtocolsPushed(_, _, _)
ProtocolsPushed(table, contract, i) ==
    IF i > Len(table) THEN <<>>
    ELSE [j \in 1..Occurrences(table[i].contracts, contract) |-> table[i].protocol_name]
         \o ProtocolsPushed(table, contract, i + 1)

\* every config is pushed, whether it lists the name or not
protocols_of_every_config(table, contract) ==
    [i \in DOMAIN table |-> table[i].protocol_name]

protocols_listing(table, contract) == ProtocolsPushed(table, contract, 1)

contract_to_protocols(table) ==
    [contract \in UNION {Range(table[i].contracts) : i \in DOMAIN table} |->
        protocols_listing(table, contract)]

\* the check never reports: what is left of the function when the loop over
\* contract_to_protocols is removed
validate_accepting_everything(table) == {[ok |-> TRUE]}

\* The Results the function can return: the loop runs over a HashMap, so the
\* entry with more than one protocol it meets first is any of them.
validate_protocol_configs_for_duplicate_definitions(table) ==
    IF \A c \in DOMAIN contract_to_protocols(table) : Len(contract_to_protocols(table)[c]) <= 1
    THEN {[ok |-> TRUE]}
    ELSE {[ok |-> FALSE,
           err |-> [kind |-> "DuplicateContracts", contract_name |-> c,
                    protocols |-> contract_to_protocols(table)[c]]] :
            c \in {d \in DOMAIN contract_to_protocols(table) :
                       Len(contract_to_protocols(table)[d]) > 1}}

init_protocol_chains(table) ==
    [p \in {table[i].protocol_name : i \in DOMAIN table} |-> EmptyMap]

\* the config the classification loop breaks at for one contract name: the
\* first of the table that lists it, 0 when none does
RECURSIVE FirstMatching(_, _, _)
FirstMatching(table, contract_name, i) ==
    IF i > Len(table) THEN 0
    ELSE IF contract_name \in Range(table[i].contracts) THEN i
    ELSE FirstMatching(table, contract_name, i + 1)

\* a name no config lists is filed under the first config
matching_config_or_first(table, contract_name) ==
    IF FirstMatching(table, contract_name, 1) = 0 THEN 1
    ELSE FirstMatching(table, contract_name, 1)

matching_config(table, contract_name) == FirstMatching(table, contract_name, 1)

\* chain_protocol_contracts after the loop over deployment.latest
ClassifyLatest(table, latest) ==
    [p \in {table[i].protocol_name : i \in DOMAIN table} |->
        [contract_name \in {n \in DOMAIN latest :
                               /\ matching_config(table, n) # 0
                               /\ table[matching_config(table, n)].protocol_name = p} |->
            latest[contract_name].address]]

\* the is_empty test is left out: an empty classification is inserted too
InsertChainContracts_keeping_empty(chains, chain_protocol_contracts, chain_id) ==
    [p \in DOMAIN chains |-> MapInsert(chains[p], chain_id, chain_protocol_contracts[p])]

\* the loop that moves chain_protocol_contracts into protocol_chains: an empty
\* map is skipped, HashMap::insert replaces what the chain id held
InsertChainContracts(chains, chain_protocol_contracts, chain_id) ==
    [p \in DOMAIN chains |->
        IF DOMAIN chain_protocol_contracts[p] # {}
        THEN MapInsert(chains[p], chain_id, chain_protocol_contracts[p])
        ELSE chains[p]]

\* found_contracts of one protocol: every name some chain of its aggregate holds
FoundContracts(chains) == UNION {DOMAIN chains[c] : c \in DOMAIN chains}

RECURSIVE MissingOf(_, _, _)
MissingOf(contract_list, found_contracts, i) ==
    IF i > Len(contract_list) THEN <<>>
    ELSE (IF contract_list[i] \in found_contracts THEN <<>> ELSE <<contract_list[i]>>)
         \o MissingOf(contract_list, found_contracts, i + 1)

\* only the first missing name is collected
missing_contracts_first_only(contract_list, found_contracts) ==
    SubSeq(MissingOf(contract_list, found_contracts, 1), 1, 1)

\* missing_contracts: the names of the list found_contracts lacks, in list order
missing_contracts(contract_list, found_contracts) ==
    MissingOf(contract_list, found_contracts, 1)

RECURSIVE try_to_find_missing_contracts(_, _, _)
try_to_find_missing_contracts(table, chains, i) ==
    IF i > Len(table) THEN [ok |-> TRUE]
    ELSE IF missing_contracts(table[i].contracts,
                              FoundContracts(chains[table[i].protocol_name])) # <<>>
    THEN [ok |-> FALSE,
          err |-> [kind |-> "MissingContracts", protocol_name |-> table[i].protocol_name,
                   contracts |-> missing_contracts(table[i].contracts,
                                                   FoundContracts(chains[table[i].protocol_name]))]]
    ELSE try_to_find_missing_contracts(table, chains, i + 1)

RECURSIVE build_response(_, _, _)
build_response(table, chains, i) ==
    IF i > Len(table) THEN <<>>
    ELSE (IF DOMAIN chains[table[i].protocol_name] = {} THEN <<>>
          ELSE <<[protocol_name |-> table[i].protocol_name,
                  chains |-> chains[table[i].protocol_name]]>>)
         \o build_response(table, chains, i + 1)

\* ---- the inputs ----

\* PROTOCOL_CONFIGS cut down to two protocols; TableClash lets both claim the
\* router, TablePartial leaves the router out of every config
TableOk ==
    <<[protocol_name |-> "uniswap-v2", contracts |-> <<"UniswapV2Factory", "UniswapV2Router02">>],
      [protocol_name |-> "permit2", contracts |-> <<"Permit2">>]>>
TableClash ==
    <<[protocol_name |-> "uniswap-v2", contracts |-> <<"UniswapV2Factory", "UniswapV2Router02">>],
      [protocol_name |-> "permit2", contracts |-> <<"Permit2", "UniswapV2Router02">>]>>
TablePartial ==
    <<[protocol_name |-> "uniswap-v2", contracts |-> <<"UniswapV2Factory">>],
      [protocol_name |-> "permit2", contracts |-> <<"Permit2">>]>>
ProtocolTables == {TableOk, TableClash, TablePartial}

UniswapContractNames == {"UniswapV2Factory", "UniswapV2Router02", "Permit2"}

\* the chainId strings of the files: "1" and "01" are one chain id, "x" is none
ChainIdStrings == {<<"1">>, <<"0", "1">>, <<"1", "0">>, <<"x">>}

\* a directory: in every file a chainId string and a latest map whose
\* addresses tell the files apart
DirectoryOf(shapes) ==
    [i \in DOMAIN shapes |->
        [chain_id |-> shapes[i].chain_id,
         latest |-> [n \in shapes[i].names |-> [address |-> <<"file", i, n>>]]]]

Directories ==
    {DirectoryOf(shapes) :
        shapes \in SeqsUpTo([chain_id : ChainIdStrings, names : SUBSET UniswapContractNames],
                            MaxFiles)}

\* ---- the steps of parse ----

UniInit ==
    /\ configs \in ProtocolTables
    /\ dir \in Directories
    /\ uni_pc = "validate" /\ dir_read = FALSE /\ uni_deployments = <<>>
    /\ protocol_chains = EmptyMap /\ classified = NoClassified /\ uni_result = NoResult
    /\ ResIdle /\ BalIdle /\ DateIdle /\ FmtIdle /\ V2Idle /\ MainIdle

\* validate_protocol_configs_for_duplicate_definitions()?; then
\* init_protocol_chains()
UniValidate ==
    /\ uni_pc = "validate"
    /\ \E r \in validate_protocol_configs_for_duplicate_definitions(configs) :
          IF r.ok
          THEN /\ uni_pc' = "read"
               /\ protocol_chains' = init_protocol_chains(configs)
               /\ UNCHANGED uni_result
          ELSE /\ uni_pc' = "done"
               /\ uni_result' = r
               /\ UNCHANGED protocol_chains
    /\ UNCHANGED <<configs, dir, dir_read, uni_deployments, classified, resVars, balVars, dateVars, fmtVars, v2Vars, mainVars>>

\* read_deployments(path)?: every file is read and decoded before the loop
\* starts; a directory or a file that cannot be read, or a file that is not a
\* Deployment, ends the run with the io::Error
UniReadDeployments ==
    /\ uni_pc = "read"
    /\ dir_read' = TRUE
    /\ \/ /\ uni_deployments' = dir
          /\ uni_pc' = "loop"
          /\ UNCHANGED uni_result
       \/ /\ uni_pc' = "done"
          /\ uni_result' = [ok |-> FALSE, err |-> [kind |-> "IoError", cause |-> "read"]]
          /\ UNCHANGED uni_deployments
    /\ UNCHANGED <<configs, dir, protocol_chains, classified, resVars, balVars, dateVars, fmtVars, v2Vars, mainVars>>

\* the values one loop iteration leaves: r is what parse_chain_id returned
UniIteration(deployment, r) ==
    IF r.ok
    THEN /\ classified' = [ran |-> TRUE, deployment |-> deployment, chain_id |-> r.chain_id,
                           before |-> protocol_chains,
                           chain_protocol_contracts |->
                               ClassifyLatest(configs, deployment.latest)]
         /\ protocol_chains' =
               InsertChainContracts(protocol_chains,
                                    ClassifyLatest(configs, deployment.latest), r.chain_id)
         /\ uni_deployments' = Tail(uni_deployments)
         /\ UNCHANGED <<uni_pc, uni_result>>
    ELSE /\ uni_pc' = "done"
         /\ uni_result' = r
         /\ UNCHANGED <<uni_deployments, protocol_chains, classified>>

\* one iteration of `for deployment in deployments`
UniProcessFile ==
    /\ uni_pc = "loop" /\ uni_deployments # <<>>
    /\ UniIteration(Head(uni_deployments), parse_chain_id(Head(uni_deployments).chain_id))
    /\ UNCHANGED <<configs, dir, dir_read, resVars, balVars, dateVars, fmtVars, v2Vars, mainVars>>

\* the completeness check is left out: the loop is followed by build_response
UniFindMissing_skipped ==
    /\ uni_pc = "loop" /\ uni_deployments = <<>>
    /\ uni_pc' = "build"
    /\ UNCHANGED <<configs, dir, dir_read, uni_deployments, protocol_chains, classified,
                   uni_result, resVars, balVars, dateVars, fmtVars, v2Vars, mainVars>>

\* try_to_find_missing_contracts(&protocol_chains)?
UniFindMissing ==
    /\ uni_pc = "loop" /\ uni_deployments = <<>>
    /\ IF try_to_find_missing_contracts(configs, protocol_chains, 1).ok
       THEN uni_pc' = "build" /\ UNCHANGED uni_result
       ELSE /\ uni_pc' = "done"
            /\ uni_result' = try_to_find_missing_contracts(configs, protocol_chains, 1)
    /\ UNCHANGED <<configs, dir, dir_read, uni_deployments, protocol_chains, classified,
                   resVars, balVars, dateVars, fmtVars, v2Vars, mainVars>>

\* Ok(build_response(protocol_chains))
UniBuildResponse ==
    /\ uni_pc = "build"
    /\ uni_pc' = "done"
    /\ uni_result' = [ok |-> TRUE, protocols |-> build_response(configs, protocol_chains, 1)]
    /\ UNCHANGED <<configs, dir, dir_read, uni_deployments, protocol_chains, classified,
                   resVars, balVars, dateVars, fmtVars, v2Vars, mainVars>>

UniNext ==
    \/ UniValidate
    \/ UniReadDeployments
    \/ UniProcessFile
    \/ UniFindMissing
    \/ UniBuildResponse

SpecUniswap == UniInit /\ [][UniNext]_vars

\* ---- the duplicate check called on a table of its own ----

\* lists that name no contract twice, as every list of PROTOCOL_CONFIGS does
DistinctLists(S, n) ==
    {l \in SeqsUpTo(S, n) : \A i, j \in DOMAIN l : l[i] = l[j] => i = j}

ProtocolNames == <<"uniswap-v2", "uniswap-v3", "permit2">>

TablesOfLength(k) ==
    {[i \in 1..k |-> [protocol_name |-> ProtocolNames[i], contracts |-> lists[i]]] :
        lists \in [1..k -> DistinctLists(UniswapContractNames, MaxConfigContracts)]}

ValidateTables == UNION {TablesOfLength(k) : k \in 0..MaxProtocols}

ValInit ==
    /\ configs \in ValidateTables
    /\ dir = <<>>
    /\ uni_pc = "validate" /\ dir_read = FALSE /\ uni_deployments = <<>>
    /\ protocol_chains = EmptyMap /\ classified = NoClassified /\ uni_result = NoResult
    /\ ResIdle /\ BalIdle /\ DateIdle /\ FmtIdle /\ V2Idle /\ MainIdle

ValNext == UniValidate

SpecValidate == ValInit /\ [][ValNext]_vars

----------------------------------------------------------------------------
(* main *)

\* the argument of write as its signature has it, HashMap<u64,
\* ProtocolDeployment>, made of the ProtocolDeployments main passes
DeploymentsByChain(protocol_deployments) ==
    [chain_id \in DOMAIN protocol_deployments.chains |->
        [name |-> protocol_deployments.protocol_name, chain_id |-> chain_id,
         contracts |-> protocol_deployments.chains[chain_id]]]

\* the file <folder>/<name>/<chain_id>.json; one that File::create made and
\* to_writer_pretty did not finish is not complete
OutputFile(protocol_deployment, complete) ==
    [protocol |-> protocol_deployment.name, chain_id |-> protocol_deployment.chain_id,
     complete |-> complete,
     content |-> IF complete THEN protocol_deployment.contracts ELSE EmptyMap]

\* the `for (chain_id, protocol_deployment) in protocol_deployments` of write
\* visiting the map in the given order: k files are written, and the next
\* one, if there is one, fails in File::create or, the file made, in
\* to_writer_pretty
WriteLoop(protocol_deployments, order, k, created) ==
    [ok |-> k = Len(order),
     files |-> {OutputFile(protocol_deployments[order[i]], TRUE) : i \in 1..k}
               \cup (IF k < Len(order) /\ created
                     THEN {OutputFile(protocol_deployments[order[k + 1]], FALSE)}
                     ELSE {})]

\* The outcomes of write(folder, protocol_deployments): a create_dir_all
\* fails before any file, or `values().next().unwrap()` panics on the empty
\* map, or the loop runs.
write(protocol_deployments) ==
    IF DOMAIN protocol_deployments = {}
    THEN {[ok |-> FALSE, files |-> {}]}
    ELSE {[ok |-> FALSE, files |-> {}]}
         \cup {WriteLoop(protocol_deployments, order, k, created) :
                  order \in Orders(DOMAIN protocol_deployments),
                  k \in 0..Cardinality(DOMAIN protocol_deployments),
                  created \in BOOLEAN}

\* the inputs of a run of main: a catalog of at most one network, the table
\* with or without a clash, a directory of at most one file
MainCatalogs == {c \in Catalogs : DOMAIN c \subseteq {"mainnet"}}
MainTables == {TableOk, TableClash}
MainDirectories ==
    {DirectoryOf(shapes) :
        shapes \in SeqsUpTo([chain_id : {<<"1">>, <<"x">>},
                             names : SUBSET UniswapContractNames], 1)}

MainInit ==
    /\ main_pc = "balancer" /\ uniswap_deployments = <<>> /\ written = {}
    /\ networks \in MainCatalogs
    /\ bal_pc = "start" /\ pending = {}
    /\ v2_chains = EmptyMap /\ v3_chains = EmptyMap
    /\ bal_result = NoResult /\ last = NoLast
    /\ configs \in MainTables
    /\ dir = <<>> /\ uni_pc = "idle" /\ dir_read = FALSE /\ uni_deployments = <<>>
    /\ protocol_chains = EmptyMap /\ classified = NoClassified /\ uni_result = NoResult
    /\ ResIdle /\ DateIdle /\ FmtIdle /\ V2Idle

\* balancer::parse(BALANCER_REPO_PATH) runs
MainBalancerParse ==
    /\ main_pc = "balancer" /\ bal_pc # "done"
    /\ BalNext

\* `.expect("Failed to parse balancer deployments")`: parse has returned and
\* its locals are gone
MainExpectBalancer ==
    /\ main_pc = "balancer" /\ bal_pc = "done"
    /\ main_pc' = IF bal_result.ok THEN "write_v2" ELSE "panic"
    /\ v2_chains' = EmptyMap /\ v3_chains' = EmptyMap /\ last' = NoLast
    /\ UNCHANGED <<networks, bal_pc, pending, bal_result, uniswap_deployments, written,
                   resVars, uniVars, dateVars, fmtVars, v2Vars>>

\* write::write(TARGET_FOLDER, v2_deployments).expect(..)
MainWriteV2 ==
    /\ main_pc = "write_v2"
    /\ \E w \in write(DeploymentsByChain(bal_result.v2)) :
          /\ written' = written \cup w.files
          /\ main_pc' = IF w.ok THEN "write_v3" ELSE "panic"
    /\ UNCHANGED <<uniswap_deployments, resVars, balVars, uniVars, dateVars, fmtVars, v2Vars>>

\* write::write(TARGET_FOLDER, v3_deployments).expect(..)
MainWriteV3 ==
    /\ main_pc = "write_v3"
    /\ \E w \in write(DeploymentsByChain(bal_result.v3)) :
          /\ written' = written \cup w.files
          /\ main_pc' = IF w.ok THEN "call_uniswap" ELSE "panic"
    /\ UNCHANGED <<uniswap_deployments, resVars, balVars, uniVars, dateVars, fmtVars, v2Vars>>

\* uniswap::parse(UNISWAP_DEPLOYMENTS_PATH) is called: the directory is what
\* read_dir will find
MainCallUniswap ==
    /\ main_pc = "call_uniswap"
    /\ main_pc' = "uniswap"
    /\ dir' \in MainDirectories
    /\ uni_pc' = "validate"
    /\ UNCHANGED <<configs, dir_read, uni_deployments, protocol_chains, classified, uni_result,
                   uniswap_deployments, written, resVars, balVars, dateVars, fmtVars, v2Vars>>

MainUniswapParse ==
    /\ main_pc = "uniswap" /\ uni_pc # "done"
    /\ UniNext

\* `.expect("Failed to parse uniswap deployments")`
MainExpectUniswap ==
    /\ main_pc = "uniswap" /\ uni_pc = "done"
    /\ IF uni_result.ok
       THEN main_pc' = "write_uniswap" /\ uniswap_deployments' = uni_result.protocols
       ELSE main_pc' = "panic" /\ UNCHANGED uniswap_deployments
    /\ UNCHANGED <<written, resVars, balVars, uniVars, dateVars, fmtVars, v2Vars>>

\* one iteration of `for deployment in uniswap_deployments`
MainWriteUniswap ==
    /\ main_pc = "write_uniswap" /\ uniswap_deployments # <<>>
    /\ \E w \in write(DeploymentsByChain(Head(uniswap_deployments))) :
          /\ written' = written \cup w.files
          /\ IF w.ok
             THEN main_pc' = main_pc /\ uniswap_deployments' = Tail(uniswap_deployments)
             ELSE main_pc' = "panic" /\ UNCHANGED uniswap_deployments
    /\ UNCHANGED <<resVars, balVars, uniVars, dateVars, fmtVars, v2Vars>>

\* the loop is over and main returns
MainReturn ==
    /\ main_pc = "write_uniswap" /\ uniswap_deployments = <<>>
    /\ main_pc' = "exit"
    /\ UNCHANGED <<uniswap_deployments, written, resVars, balVars, uniVars, dateVars, fmtVars, v2Vars>>

MainNext ==
    \/ MainBalancerParse
    \/ MainExpectBalancer
    \/ MainWriteV2
    \/ MainWriteV3
    \/ MainCallUniswap
    \/ MainUniswapParse
    \/ MainExpectUniswap
    \/ MainWriteUniswap
    \/ MainReturn

SpecMain == MainInit /\ [][MainNext]_vars

----------------------------------------------------------------------------
(* Vocabulary of the properties *)

\* the contract names a deployment lists, and the addresses it lists for one
NamesIn(deployment) == {deployment.contracts[i].name : i \in DOMAIN deployment.contracts}
AddressesIn(deployment, name) ==
    {deployment.contracts[i].address :
        i \in {j \in DOMAIN deployment.contracts : deployment.contracts[j].name = name}}

\* the deployments of a bucket that list the name
HoldersOf(bucket, name) == {s \in DOMAIN bucket : name \in NamesIn(bucket[s])}

\* what parse_data_from_signature returns for each signature of the inputs
SignatureDates == [s \in Signatures |-> parse_data_from_signature(s, 1)]
Parseable(signature) == SignatureDates[signature].ok
SigDate(signature) == SignatureDates[signature].date

DistinctDates(S) == \A a, b \in S : a # b => SigDate(a) # SigDate(b)
LatestOf(S) == CHOOSE s \in S : \A t \in S : DateGE(SigDate(s), SigDate(t))

----------------------------------------------------------------------------
(* Properties of the resolver (SpecResolve) *)

\* C1: when the deployments of the bucket that list a contract name have
\* pairwise distinct dates, the resolved address of that name is one listed
\* by the deployment with the greatest date, whatever the iteration order.
C1_LatestWins ==
    (res_pc = "done" /\ res_result.ok) =>
        \A name \in ContractNames :
            LET H == HoldersOf(res_bucket, name)
            IN  (H # {} /\ DistinctDates(H)) =>
                    /\ name \in DOMAIN res_result.contracts
                    /\ res_result.contracts[name] \in AddressesIn(res_bucket[LatestOf(H)], name)

\* C1 witness: a name listed by two deployments of distinct dates, resolved
\* with the newer deployment visited before the older one
C1_Witness ==
    /\ res_pc = "done" /\ res_result.ok
    /\ \E name \in ContractNames :
          LET H == HoldersOf(res_bucket, name)
          IN  /\ Cardinality(H) >= 2 /\ DistinctDates(H)
              /\ \E i, j \in DOMAIN res_order :
                    i < j /\ res_order[i] = LatestOf(H) /\ res_order[j] \in H

\* the deployments that list the name with the greatest date of all that do
TiedLatest(bucket, name) ==
    {s \in HoldersOf(bucket, name) :
        \A t \in HoldersOf(bucket, name) : DateGE(SigDate(s), SigDate(t))}

\* the deployment of S that the iteration visited last
LastVisited(order, S) ==
    order[CHOOSE i \in DOMAIN order :
              order[i] \in S /\ \A j \in DOMAIN order : order[j] \in S => j <= i]

\* the address of the last entry of the deployment's list with the name
LastAddressIn(deployment, name) ==
    deployment.contracts[CHOOSE i \in DOMAIN deployment.contracts :
        /\ deployment.contracts[i].name = name
        /\ \A j \in DOMAIN deployment.contracts :
              deployment.contracts[j].name = name => j <= i].address

\* C18: when every signature of the bucket has a date and several
\* deployments with the same, greatest date list a name, the call succeeds
\* and the name resolves to the address given by the one of them that the
\* iteration visited last, whatever older deployments list.
C18_TieLastProcessedWins ==
    (res_pc = "done" /\ \A s \in DOMAIN res_bucket : Parseable(s)) =>
        /\ res_result.ok
        /\ \A name \in ContractNames :
              Cardinality(TiedLatest(res_bucket, name)) >= 2 =>
                  /\ name \in DOMAIN res_result.contracts
                  /\ res_result.contracts[name] =
                         LastAddressIn(res_bucket[LastVisited(res_order,
                                                              TiedLatest(res_bucket, name))],
                                       name)

\* C18 witness: two deployments of the same date and an older one list the
\* name with three addresses, and the older one was visited last.
C18_Witness ==
    /\ res_pc = "done" /\ res_result.ok
    /\ Cardinality(TiedLatest(res_bucket, "Vault")) = 2
    /\ Cardinality(HoldersOf(res_bucket, "Vault")) = 3
    /\ res_order[Len(res_order)] \notin TiedLatest(res_bucket, "Vault")
    /\ res_order[Len(res_order)] \in HoldersOf(res_bucket, "Vault")

\* C20: a call that succeeds returns a map whose keys are exactly the names
\* the deployments of the bucket list, each with an address that some
\* deployment lists for it; the empty bucket yields the empty map.
C20_ResultKeys ==
    res_pc = "done" =>
        /\ res_result.ok =>
              /\ DOMAIN res_result.contracts =
                     UNION {NamesIn(res_bucket[s]) : s \in DOMAIN res_bucket}
              /\ \A name \in DOMAIN res_result.contracts :
                    \E s \in DOMAIN res_bucket :
                        res_result.contracts[name] \in AddressesIn(res_bucket[s], name)
        /\ DOMAIN res_bucket = {} =>
              res_result.ok /\ DOMAIN res_result.contracts = {}

\* C20 witness: two deployments that list different names, one of them a
\* name twice; the result holds both names.
C20_Witness ==
    /\ res_pc = "done" /\ res_result.ok
    /\ DOMAIN res_result.contracts = ContractNames
    /\ \E s, t \in DOMAIN res_bucket :
          /\ NamesIn(res_bucket[s]) = {"Vault"} /\ Len(res_bucket[s].contracts) = 2
          /\ NamesIn(res_bucket[t]) = {"Router"}

----------------------------------------------------------------------------
(* Properties of balancer::parse (SpecBalancer) *)

\* the loop body has read the network file of the iteration under way
BodyRan == bal_pc \in {"loop", "done"} /\ last.read.ok
LastFile == last.read.deployments
CallOf(version) == IF version = "V2" THEN last.v2 ELSE last.v3
ChainsOf(version) == IF version = "V2" THEN v2_chains ELSE v3_chains

\* the records of the file read that are Active and of the version
ActiveOf(version) ==
    {s \in DOMAIN LastFile : LastFile[s].status = "Active" /\ LastFile[s].version = version}

\* C2: the bucket resolved for version V holds exactly the records of the
\* file whose status is Active and whose version is V, and every address of
\* a resolved map is one listed, under that name, by such a record: a
\* Deprecated or Script record contributes no address.
C2_TagClassification ==
    BodyRan =>
        /\ last.v2.called <=> ActiveOf("V2") # {}
        /\ last.v3.called => ActiveOf("V3") # {}
        /\ \A version \in Versions :
              LET call == CallOf(version)
              IN  call.called =>
                    /\ Range(call.order) = ActiveOf(version)
                    /\ call.result.ok =>
                          \A name \in DOMAIN call.result.contracts :
                              \E s \in ActiveOf(version) :
                                  call.result.contracts[name] \in AddressesIn(LastFile[s], name)

\* C2 witness: a file with an Active record and a later-dated Deprecated or
\* Script record of the same version listing the same name; the name is
\* resolved, to the Active record's address
C2_Witness ==
    /\ BodyRan
    /\ \E version \in Versions, a, b \in DOMAIN LastFile, name \in {"Vault"} :
          /\ LastFile[a].status = "Active" /\ LastFile[a].version = version
          /\ LastFile[b].status # "Active" /\ LastFile[b].version = version
          /\ Parseable(a) /\ Parseable(b) /\ ~DateGE(SigDate(a), SigDate(b))
          /\ name \in NamesIn(LastFile[a]) /\ name \in NamesIn(LastFile[b])
          /\ CallOf(version).called /\ CallOf(version).result.ok
          /\ CallOf(version).result.contracts[name] \in AddressesIn(LastFile[a], name)
          /\ last.chain_id \in DOMAIN ChainsOf(version)

\* two entries of the catalog have the same chain id
DuplicateChainIds ==
    {c \in ChainIds : \E a, b \in DOMAIN networks : a # b /\ networks[a] = c /\ networks[b] = c}

\* C3 (as claimed): when two entries of the catalog have the same chain id
\* the run does not succeed, and a ChainIdAlreadyExists it fails with names a
\* chain id the catalog has twice.  (A run that fails on a file or on a date
\* before it meets the second entry is not held against the claim.)
C3_DuplicateChainIdFails ==
    (bal_pc = "done" /\ DuplicateChainIds # {}) =>
        /\ ~bal_result.ok
        /\ bal_result.err.kind = "ChainIdAlreadyExists" =>
              bal_result.err.chain_id \in DuplicateChainIds

\* the run has not returned an error
NotFailed == ~(bal_pc = "done" /\ ~bal_result.ok)

\* C13 (as claimed): after the iteration of a network whose file holds no
\* Active record of version V, the network's chain id is not in the aggregate
\* of V, and the run has not failed unless the other version's bucket, which
\* is not empty, made it fail.
C13_EmptyBucketAddsNothing ==
    BodyRan =>
        \A version \in Versions :
            ActiveOf(version) = {} =>
                /\ last.chain_id \notin DOMAIN ChainsOf(version)
                /\ ~NotFailed => \E other \in Versions \ {version} : ActiveOf(other) # {}

\* latest wins, stated on a file: the map holds exactly the names the
\* records S of the file list, each with an address that a record of the
\* greatest date among those listing the name gives it
LatestWinsOf(contracts, file, S) ==
    /\ DOMAIN contracts = UNION {NamesIn(file[s]) : s \in S}
    /\ \A name \in DOMAIN contracts :
          \E s \in S :
              /\ contracts[name] \in AddressesIn(file[s], name)
              /\ \A t \in S : name \in NamesIn(file[t]) => DateGE(SigDate(s), SigDate(t))

\* C14: the map resolved for a network and a version is the latest-wins
\* resolution of that network's own Active records of the version; and as
\* long as the run has not failed, of any two networks with distinct chain
\* ids whose buckets for a version were resolved, each has its chain id in
\* the version's aggregate, holding exactly the map resolved for it.
C14_IndependentAggregation ==
    /\ BodyRan =>
          \A version \in Versions :
              (CallOf(version).called /\ CallOf(version).result.ok) =>
                  LatestWinsOf(CallOf(version).result.contracts, LastFile, ActiveOf(version))
    /\ NotFailed =>
          \A e, f \in last.fed :
              (e.version = f.version /\ networks[e.network] # networks[f.network]) =>
                  /\ networks[e.network] \in DOMAIN ChainsOf(e.version)
                  /\ ChainsOf(e.version)[networks[e.network]] = e.contracts

\* C14 witness: a run that succeeded over two networks with distinct chain
\* ids, both with a resolved bucket of the same version that lists a contract.
C14_Witness ==
    /\ bal_pc = "done" /\ bal_result.ok
    /\ \E e, f \in last.fed :
          /\ e.version = f.version /\ networks[e.network] # networks[f.network]
          /\ DOMAIN e.contracts # {} /\ DOMAIN f.contracts # {}
          /\ e.version = "V2"
          /\ bal_result.v2.chains[networks[e.network]] = e.contracts
          /\ bal_result.v2.chains[networks[f.network]] = f.contracts

\* C17 (as claimed): in a result returned by balancer::parse no chain id of
\* either output maps to an empty contract map.
C17_NoEmptyChainEntry ==
    (bal_pc = "done" /\ bal_result.ok) =>
        /\ \A c \in DOMAIN bal_result.v2.chains : DOMAIN bal_result.v2.chains[c] # {}
        /\ \A c \in DOMAIN bal_result.v3.chains : DOMAIN bal_result.v3.chains[c] # {}

\* an entry of the aggregate is in it, unchanged, after the step
EntriesKept(chains_before, chains_after) ==
    \A c \in DOMAIN chains_before :
        c \in DOMAIN chains_after /\ chains_after[c] = chains_before[c]

\* C19: no step of balancer::parse changes or removes an entry that a
\* version's aggregate holds.
C19_EntriesImmutable ==
    [][EntriesKept(v2_chains, v2_chains') /\ EntriesKept(v3_chains, v3_chains')]_vars

\* C19 witness: a later network with the chain id of an earlier one, whose
\* bucket resolved to another map, made the run fail with
\* ChainIdAlreadyExists, and the aggregate still holds the earlier map.
C19_Witness ==
    /\ bal_pc = "done" /\ ~bal_result.ok
    /\ bal_result.err.kind = "ChainIdAlreadyExists"
    /\ \E e \in last.fed :
          /\ e.network # last.network /\ networks[e.network] = last.chain_id
          /\ CallOf(e.version).called /\ CallOf(e.version).result.ok
          /\ CallOf(e.version).result.contracts # e.contracts
          /\ ChainsOf(e.version)[last.chain_id] = e.contracts

\* ---- uniswap::parse ----

\* the protocols whose config lists a contract name, and the names that more
\* than one protocol lists
Claimants(table, contract) ==
    {table[i].protocol_name : i \in {j \in DOMAIN table : contract \in Range(table[j].contracts)}}
ClashingNames(table) ==
    {c \in UniswapContractNames : Cardinality(Claimants(table, c)) > 1}

\* the run has ended with an error of this kind
FailedWith(kind) ==
    uni_pc = "done" /\ ~uni_result.ok /\ uni_result.err.kind = kind

\* the first config of the table that lists the name (one must list it)
FirstListing(table, contract) ==
    CHOOSE i \in DOMAIN table :
        /\ contract \in Range(table[i].contracts)
        /\ \A k \in 1..(i - 1) : contract \notin Range(table[k].contracts)

\* the required names of config i that no chain of its aggregate holds
MissingNames(i) ==
    {n \in Range(configs[i].contracts) :
        \A c \in DOMAIN protocol_chains[configs[i].protocol_name] :
            n \notin DOMAIN protocol_chains[configs[i].protocol_name][c]}

\* C4 (as claimed): a loop iteration that completes has inserted under no
\* chain id that the protocol's aggregate already held; a file that repeats a
\* chain id of an earlier file for the same protocol ends the run instead of
\* replacing the earlier entry.
C4_ChainIdsUniqueByRejection ==
    classified.ran =>
        \A p \in DOMAIN classified.before :
            DOMAIN classified.chain_protocol_contracts[p] # {} =>
                classified.chain_id \notin DOMAIN classified.before[p]

C6_ValidationBeforeInput ==
    ClashingNames(configs) # {} =>
        /\ ~dir_read
        /\ uni_deployments = <<>>
        /\ ~classified.ran
        /\ uni_pc \in {"validate", "done"}
        /\ uni_pc = "done" => FailedWith("DuplicateContracts")

\* C6 witness: the run has failed on the table while the directory holds
\* files, none of which was read.
C6_Witness ==
    /\ FailedWith("DuplicateContracts")
    /\ dir # <<>>
    /\ ~dir_read

\* C7: once every file is aggregated, the run goes on to build its result
\* only if every protocol has each of its required names on some chain of its
\* aggregate; otherwise it fails with MissingContracts, which names a protocol
\* and lists all of its missing names, each once, and no other name.
C7_CompletenessValidation ==
    /\ (uni_pc = "build" \/ (uni_pc = "done" /\ uni_result.ok)) =>
          \A i \in DOMAIN configs : MissingNames(i) = {}
    /\ FailedWith("MissingContracts") =>
          \E i \in DOMAIN configs :
              /\ configs[i].protocol_name = uni_result.err.protocol_name
              /\ MissingNames(i) # {}
              /\ Range(uni_result.err.contracts) = MissingNames(i)
              /\ Len(uni_result.err.contracts) = Cardinality(MissingNames(i))

\* C7 witness: files were aggregated, and the run failed listing two missing
\* names of one protocol.
C7_Witness ==
    /\ FailedWith("MissingContracts")
    /\ classified.ran
    /\ Len(uni_result.err.contracts) = 2

\* C8: the iteration over a file puts every name of its latest map that some
\* config lists under the first such config, with the file's address, and
\* under no other; a name no config lists goes under none, and the iteration
\* completes all the same.  The aggregate takes each non-empty classification
\* under the file's chain id, so no protocol's aggregate ever holds a name
\* that its config is not the first to list.
C8_NameClassification ==
    /\ classified.ran =>
          /\ \A n \in DOMAIN classified.deployment.latest :
                \A i \in DOMAIN configs :
                    IF Claimants(configs, n) # {} /\ i = FirstListing(configs, n)
                    THEN /\ n \in DOMAIN classified.chain_protocol_contracts[configs[i].protocol_name]
                         /\ classified.chain_protocol_contracts[configs[i].protocol_name][n] =
                                classified.deployment.latest[n].address
                    ELSE n \notin DOMAIN classified.chain_protocol_contracts[configs[i].protocol_name]
          /\ \A p \in DOMAIN classified.chain_protocol_contracts :
                /\ DOMAIN classified.chain_protocol_contracts[p] \subseteq
                       DOMAIN classified.deployment.latest
                /\ IF DOMAIN classified.chain_protocol_contracts[p] # {}
                   THEN /\ classified.chain_id \in DOMAIN protocol_chains[p]
                        /\ protocol_chains[p][classified.chain_id] =
                               classified.chain_protocol_contracts[p]
                   ELSE protocol_chains[p] = classified.before[p]
    /\ \A i \in DOMAIN configs :
          configs[i].protocol_name \in DOMAIN protocol_chains =>
              \A c \in DOMAIN protocol_chains[configs[i].protocol_name] :
                  \A n \in DOMAIN protocol_chains[configs[i].protocol_name][c] :
                      Claimants(configs, n) # {} /\ i = FirstListing(configs, n)
    /\ FailedWith("IoError") =>
          \/ uni_result.err.cause = "read"
          \/ \E k \in DOMAIN dir : ~parse_chain_id(dir[k].chain_id).ok

\* C8 witness: a run that succeeded after a file with a name some config
\* lists and a name no config lists.
C8_Witness ==
    /\ uni_pc = "done" /\ uni_result.ok
    /\ classified.ran
    /\ \E n, m \in DOMAIN classified.deployment.latest :
          /\ Claimants(configs, n) # {}
          /\ Claimants(configs, m) = {}

\* C21: when parse has succeeded, its result lists the protocols of
\* PROTOCOL_CONFIGS, one entry for each config and in the table's order; every
\* entry has at least one chain, every chain of an entry has at least one
\* contract, and every contract name of an entry is in the contract list of
\* the entry's config.
C21_ResponseShape ==
    (uni_pc = "done" /\ uni_result.ok) =>
        /\ Len(uni_result.protocols) = Len(configs)
        /\ \A i \in DOMAIN uni_result.protocols :
              /\ uni_result.protocols[i].protocol_name = configs[i].protocol_name
              /\ DOMAIN uni_result.protocols[i].chains # {}
              /\ \A c \in DOMAIN uni_result.protocols[i].chains :
                    /\ DOMAIN uni_result.protocols[i].chains[c] # {}
                    /\ DOMAIN uni_result.protocols[i].chains[c] \subseteq
                           Range(configs[i].contracts)

\* C21 witness: a run that succeeded over two files of different chain ids,
\* one of which holds contracts of one protocol only.
C21_Witness ==
    /\ uni_pc = "done" /\ uni_result.ok
    /\ Len(uni_result.protocols) = 2
    /\ \E i, j \in DOMAIN uni_result.protocols :
          /\ Cardinality(DOMAIN uni_result.protocols[i].chains) = 2
          /\ Cardinality(DOMAIN uni_result.protocols[j].chains) = 1

\* ---- main ----

BalancerFamily == {"balancer-v2", "balancer-v3"}
FilesOf(family) == {f \in written : f.protocol \in family}
UniswapFiles == written \ FilesOf(BalancerFamily)

\* C15 (as claimed): when the run of main has ended in a fatal error, it has
\* created no output file.
C15_NoPartialOutput ==
    main_pc = "panic" => written = {}

\* C16: a file of balancer-v2 or balancer-v3 exists only when
\* balancer::parse has visited every network and returned Ok, and it is a
\* chain of the output returned; a file of another protocol exists only
\* when uniswap::parse has validated the table, read the directory,
\* processed every file, found no required contract missing and returned
\* Ok, and it is a chain of a protocol returned.  After a parse that
\* returned an error there is no file of its protocols.
C16_WriteAfterParse ==
    /\ \A f \in FilesOf(BalancerFamily) :
          /\ bal_pc = "done" /\ bal_result.ok /\ pending = {}
          /\ f.chain_id \in DOMAIN (IF f.protocol = "balancer-v2"
                                     THEN bal_result.v2.chains ELSE bal_result.v3.chains)
    /\ \A f \in UniswapFiles :
          /\ uni_pc = "done" /\ uni_result.ok
          /\ ClashingNames(configs) = {}
          /\ dir_read /\ uni_deployments = <<>>
          /\ \A i \in DOMAIN configs : MissingNames(i) = {}
          /\ \E i \in DOMAIN uni_result.protocols :
                /\ uni_result.protocols[i].protocol_name = f.protocol
                /\ f.chain_id \in DOMAIN uni_result.protocols[i].chains
    /\ (bal_pc = "done" /\ ~bal_result.ok) => written = {}
    /\ (uni_pc = "done" /\ ~uni_result.ok) => UniswapFiles = {}

\* C16 witness: main has returned, having written files of a balancer
\* output and of both uniswap protocols.
C16_Witness ==
    /\ main_pc = "exit"
    /\ FilesOf(BalancerFamily) # {}
    /\ FilesOf({"uniswap-v2"}) # {} /\ FilesOf({"permit2"}) # {}

\* ---- parse_data_from_signature ----

\* the segment is exactly 8 digits YYYYMMDD that form a calendar date
EightDigitDate(seg) ==
    /\ Len(seg) = 8
    /\ \A i \in 1..8 : seg[i] \in Digits
    /\ IsValidDate(DecimalValue(SubSeq(seg, 1, 4)), DecimalValue(SubSeq(seg, 5, 6)),
                   DecimalValue(SubSeq(seg, 7, 8)))

\* C11 (as claimed): a signature whose leading segment is 8 digits forming a
\* calendar date yields exactly that year, month and day, and every other
\* signature yields an error.
C11_SignatureDate ==
    date_pc = "done" =>
        IF EightDigitDate(FirstSegment(date_signature))
        THEN /\ date_result.ok
             /\ date_result.date =
                    [year |-> DecimalValue(SubSeq(date_signature, 1, 4)),
                     month |-> DecimalValue(SubSeq(date_signature, 5, 6)),
                     day |-> DecimalValue(SubSeq(date_signature, 7, 8))]
        ELSE ~date_result.ok

\* C12 (as claimed): the error returned for a signature carries the chain id
\* that was passed in and the signature itself.
C12_ErrorCarriesContext ==
    (date_pc = "done" /\ ~date_result.ok) =>
        /\ {"chain_id", "signature"} \subseteq DOMAIN date_result.err
        /\ date_result.err.chain_id = date_chain_id
        /\ date_result.err.signature = date_signature

\* ---- balancer::parse, continued ----

\* C9: a resolver call whose bucket holds a signature without a parseable
\* date returns a DateParseError and no contract map, in whatever order the
\* bucket is visited, and balancer::parse returns that very error and no
\* ProtocolDeployments.
C9_DateFailureAllOrNothing ==
    \A version \in Versions :
        LET call == CallOf(version)
        IN  (call.called /\ \E s \in Range(call.order) : ~Parseable(s)) =>
                /\ ~call.result.ok
                /\ "contracts" \notin DOMAIN call.result
                /\ call.result.err.kind = "DateParseError"
                /\ bal_pc = "done"
                /\ bal_result = [ok |-> FALSE, err |-> call.result.err]

\* C9 witness: the resolver met the unparseable signature after it had
\* merged the contracts of a parseable one, and the run ended with the error
C9_Witness ==
    /\ bal_pc = "done" /\ ~bal_result.ok /\ bal_result.err.kind = "DateParseError"
    /\ \E version \in Versions :
          LET call == CallOf(version)
          IN  /\ call.called /\ Len(call.order) = 2
              /\ Parseable(call.order[1]) /\ ~Parseable(call.order[2])
              /\ LastFile[call.order[1]].contracts # <<>>

\* C10 (as claimed): a network file holding a record, of any status or
\* version, whose signature has no parseable date makes the processing of
\* that network fail.
C10_EveryRecordNeedsDate ==
    (BodyRan /\ \E s \in DOMAIN LastFile : ~Parseable(s)) =>
        (bal_pc = "done" /\ ~bal_result.ok)

\* ---- <ParseError as Display>::fmt ----

\* C22 (as claimed): formatting a ParseError with Display terminates: for
\* every variant the call of fmt returns after finitely many steps, with the
\* message written.
C22_DisplayTerminates == <>(fmt_pc = "returned")

\* ---- balancer::parse and balancer_v2::parse on one checkout ----

\* the records of a file that are Active and of version V2
ActiveV2(file) ==
    {s \in DOMAIN file : file[s].status = "Active" /\ file[s].version = "V2"}

\* the active V2 deployments of a chain: those of every network of the
\* catalog with that chain id
ActiveV2OfChain(chain_id) ==
    {<<n, s>> : n \in {m \in DOMAIN networks : networks[m] = chain_id},
                s \in Signatures} \cap
    UNION {{<<n, s>> : s \in ActiveV2(repo[n])} : n \in DOMAIN networks}

\* two deployments with the same date that list a common contract name
ShareDateAndName(a, b) ==
    /\ Parseable(a[2]) /\ Parseable(b[2]) /\ SigDate(a[2]) = SigDate(b[2])
    /\ NamesIn(repo[a[1]][a[2]]) \cap NamesIn(repo[b[1]][b[2]]) # {}

NoSharedDateAndName ==
    \A chain_id \in ChainIds :
        \A a, b \in ActiveV2OfChain(chain_id) : a # b => ~ShareDateAndName(a, b)

\* the chain ids of the networks whose file has no active V2 deployment
ChainsWithoutActiveV2 ==
    {networks[n] : n \in {m \in DOMAIN networks : ActiveV2(repo[m]) = {}}}

WithoutChains(chains, removed) == [c \in DOMAIN chains \ removed |-> chains[c]]

BothSucceeded ==
    /\ bal_pc = "done" /\ bal_result.ok
    /\ b2_pc = "done" /\ b2_result.ok

\* C23: when balancer::parse and balancer_v2::parse have both succeeded on
\* the same checkout, and no two active V2 deployments of a chain have the
\* same date and a contract name in common, the balancer-v2 chains of
\* balancer::parse are the chains of balancer_v2::parse without the chains of
\* the networks that have no active V2 deployment.
C23_ParsersAgreeOnV2 ==
    (BothSucceeded /\ NoSharedDateAndName) =>
        bal_result.v2.chains =
            WithoutChains(b2_result.deployments.chains, ChainsWithoutActiveV2)

\* C23 witness: both parsers succeeded on a checkout of two networks, one
\* without an active V2 deployment, the other with two active V2 deployments
\* of different dates that list the same contract.
C23_Witness ==
    /\ BothSucceeded /\ NoSharedDateAndName
    /\ ChainsWithoutActiveV2 # {}
    /\ ChainsWithoutActiveV2 \subseteq DOMAIN b2_result.deployments.chains
    /\ \E n \in DOMAIN networks :
          \E s, t \in ActiveV2(repo[n]) :
              /\ s # t
              /\ NamesIn(repo[n][s]) \cap NamesIn(repo[n][t]) # {}

====
